---- MODULE Spec2Model ----
(***************************************************************************)
(* Support-ticket lifecycle of the APIHub chatbot (1_Chatbot.py) and the   *)
(* admin dashboard (2_Dashboard.py).  Both pages share the MongoDB         *)
(* collection support_tickets: the chatbot page inserts tickets and        *)
(* notifies over WhatsApp, the dashboard lists open and closed tickets and *)
(* closes them.  Every dashboard session re-runs the page script on each   *)
(* interaction; sessions run concurrently against the same store.          *)
(*                                                                         *)
(* Time is the UTC clock in seconds; it advances in steps of 12 seconds.   *)
(***************************************************************************)
EXTENDS Integers, Sequences, FiniteSets, TLC

\* ---------------------------------------------------------------- bounds
MaxTickets == 2      \* successful inserts explored in one behaviour
MaxTime == 36        \* the clock stops advancing here (seconds)
MaxSends == 2        \* presses of the chat send button with a message
MaxTurns == 2        \* user turns handled in one session
MaxSignIns == 1      \* submissions of the auth form that sign the user in
DrawSteps == 8       \* np.random.rand() takes the values k / DrawSteps
MaxKeys == 2         \* API keys generated in one behaviour
MaxDrags == 1        \* drags of the slider started in one behaviour

Queries == {"q1", "q2"}
Contacts == {"anonymous"}
Sessions == {"s1", "s2"}     \* two operators on the dashboard at once
None == "None"

\* ------------------------------------------------------- program constants
ClosedLimit == 20    \* .limit(20) of the closed-tickets query

VARIABLES
    now,            \* datetime.utcnow(), in seconds
    tickets,        \* the support_tickets collection: a set of documents
    nextId,         \* the next ObjectId the driver generates
    env,            \* which of the settings read at lines 15-20 are set
    twilio_client,  \* TRUE when the Twilio client object exists
    bot,            \* the chatbot page: script position and create_ticket frame
    dash,           \* the dashboard sessions
    closeLog,       \* history: <<id, time>> of every Close Ticket update applied
    insertCount,    \* history: number of successful insert_one calls
    turn,           \* the conversation turn handler of the chatbot session
    web,            \* the chat widget in the browser (script of html_content)
    calc,           \* the last evaluation of a display computation of the dashboard
    seed,           \* the logs and users collections and the sessions seeding them
    admin,          \* the api_keys and users writes of the dashboard's admin panels
    slider          \* the pull slider of the landing page (app.py)

\* The variables of the dashboard's other panels and of the landing page.
ext == <<calc, seed, admin, slider>>

\* The variables of the chatbot page, the tickets and the chat widget.
core == <<now, tickets, nextId, env, twilio_client, bot, dash, closeLog, insertCount,
          turn, web>>

vars == <<core, ext>>

\* ------------------------------------------------------------ conversions
\* datetime.isoformat(): the clock value printed field by field.
isoformat(t) == <<t \div 3600, (t % 3600) \div 60, t % 60>>

\* datetime.fromisoformat(): the fields read back.
fromisoformat(s) == s[1] * 3600 + s[2] * 60 + s[3]

\* Order of two ISO strings as the store compares them (field by field,
\* which for fixed-width fields is the character order).
IsoLess(a, b) ==
    \/ a[1] < b[1]
    \/ a[1] = b[1] /\ a[2] < b[2]
    \/ a[1] = b[1] /\ a[2] = b[2] /\ a[3] < b[3]

\* str(ObjectId)
str_off_by_one(oid) == ToString(oid + 1)

str(oid) == ToString(oid)

\* ------------------------------------------------------------- the store
insert_one_dedup(coll, doc, oid) ==
    IF \E t \in coll : t.query = doc.query /\ t.contact = doc.contact
    THEN coll
    ELSE coll \cup {doc @@ [_id |-> oid]}

\* insert_one: the driver adds the generated _id to the document.
insert_one(coll, doc, oid) == coll \cup {doc @@ [_id |-> oid]}

\* Ids of the tickets the Close Ticket update was applied to.
ClosedByOperator == {e[1] : e \in closeLog}

\* find({"status": status})
find(coll, status) == {t \in coll : t.status = status}

find_open_unfiltered(coll) == coll

\* Line 1084: find({"status": "open"}).
find_open(coll) == find(coll, "open")

\* All orders in which a cursor may hand back the documents of S.
Orders(S) ==
    {f \in [1..Cardinality(S) -> S] : \A i, j \in 1..Cardinality(S) : i # j => f[i] # f[j]}

\* ------------------------------------------------------- 1_Chatbot.py
NewTicket_future(query, contact, t) ==
    [query |-> query, contact |-> contact, status |-> "open",
     created_at |-> isoformat(t + 12)]

NewTicket_pending(query, contact, t) ==
    [query |-> query, contact |-> contact, status |-> "pending",
     created_at |-> isoformat(t)]

\* The dict built by create_ticket.
NewTicket_no_query(query, contact, t) ==
    [query |-> <<>>, contact |-> contact, status |-> "open",
     created_at |-> isoformat(t)]

NewTicket(query, contact, t) ==
    [query |-> query, contact |-> contact, status |-> "open",
     created_at |-> isoformat(t)]

BotIdle ==
    [pc |-> "boot", ticket |-> None, inserted_id |-> None, ret |-> None,
     sends |-> 0, attempts |-> 0, notice |-> None, raised |-> FALSE,
     ticket_id |-> None]

\* Line 23: a missing SUPPORT_PHONE_NUMBER stops the script.
CheckSupportNumber ==
    /\ bot.pc = "boot"
    /\ bot' = [bot EXCEPT !.pc = IF env.support_number THEN "mongo" ELSE "stopped",
                          !.notice = IF env.support_number THEN None
                                     ELSE "error: SUPPORT_PHONE_NUMBER not set"]
    /\ UNCHANGED <<now, tickets, nextId, env, twilio_client, dash, closeLog, insertCount, turn, web, ext>>

\* Whether MongoClient(uri) may raise: the constructor connects lazily; it
\* rejects a malformed URI, and with no URI at all it takes the default host.
MongoClientMayRaise(uri_set) == uri_set

\* Whether init_chat_model(api_key=...) may succeed: without a key the Groq
\* client refuses to be built.
ChatModelMayBuild(key_set) == key_set

\* Lines 28-35: MongoClient(...) in a try block; an exception stops the script.
ConnectMongo ==
    /\ bot.pc = "mongo"
    /\ \E ok \in {TRUE} \cup {~MongoClientMayRaise(env.mongo_uri)} :
         bot' = [bot EXCEPT !.pc = IF ok THEN "model" ELSE "stopped",
                            !.notice = IF ok THEN None
                                       ELSE "error: Failed to connect to MongoDB"]
    /\ UNCHANGED <<now, tickets, nextId, env, twilio_client, dash, closeLog, insertCount, turn, web, ext>>

\* Lines 38-47: init_chat_model(...) in a try block; an exception stops the script.
InitChatModel ==
    /\ bot.pc = "model"
    /\ \E ok \in {FALSE} \cup {ChatModelMayBuild(env.groq_api_key)} :
         bot' = [bot EXCEPT !.pc = IF ok THEN "twilio" ELSE "stopped",
                            !.notice = IF ok THEN None
                                       ELSE "error: Failed to initialize Groq chat model"]
    /\ UNCHANGED <<now, tickets, nextId, env, twilio_client, dash, closeLog, insertCount, turn, web, ext>>

\* Lines 50-57: the Twilio client is built only when SID and token are set;
\* a failing constructor or missing credentials leave it None, with a warning.
InitTwilio ==
    /\ bot.pc = "twilio"
    /\ \E ok \in BOOLEAN :
         LET built == env.twilio_sid /\ env.twilio_token /\ ok IN
         /\ twilio_client' = built
         /\ bot' = [bot EXCEPT !.pc = "ready",
                               !.notice = IF built THEN None ELSE "warning"]
    /\ UNCHANGED <<now, tickets, nextId, env, dash, closeLog, insertCount, turn, web, ext>>

\* send_whatsapp's guard (line 61).
Configured == twilio_client /\ env.twilio_number /\ env.support_number

\* Number of messages.create calls send_whatsapp makes for one outcome of
\* the first call.
CreateCalls_retry(ok) == IF ok THEN 1 ELSE 2

CreateCalls(ok) == 1

\* create_ticket, lines 75-80: the call begins and builds the dict.
CreateTicketBuild ==
    /\ bot.pc = "ready"
    /\ insertCount < MaxTickets
    /\ \E q \in Queries, c \in Contacts :
         bot' = [BotIdle EXCEPT !.pc = "insert", !.ticket = NewTicket(q, c, now)]
    /\ UNCHANGED <<now, tickets, nextId, env, twilio_client, dash, closeLog, insertCount, turn, web, ext>>

InsertOne_not_stored ==
    /\ bot.pc = "insert"
    /\ nextId' = nextId + 1
    /\ insertCount' = insertCount + 1
    /\ bot' = [bot EXCEPT !.pc = "notify", !.inserted_id = nextId]
    /\ UNCHANGED <<now, tickets, env, twilio_client, dash, closeLog, turn, web, ext>>

\* Line 81: tickets.insert_one(ticket).
InsertOne ==
    /\ bot.pc = "insert"
    /\ tickets' = insert_one(tickets, bot.ticket, nextId)
    /\ nextId' = nextId + 1
    /\ insertCount' = insertCount + 1
    /\ bot' = [bot EXCEPT !.pc = "notify", !.inserted_id = nextId]
    /\ UNCHANGED <<now, env, twilio_client, dash, closeLog, turn, web, ext>>

InsertOneRaises_returns_id ==
    /\ bot.pc = "insert"
    /\ bot' = [BotIdle EXCEPT !.pc = "ready", !.ret = str(nextId)]
    /\ UNCHANGED <<now, tickets, nextId, env, twilio_client, dash, closeLog, insertCount, turn, web, ext>>

\* Line 81 when the store is unavailable: insert_one raises out of create_ticket.
InsertOneRaises ==
    /\ bot.pc = "insert"
    /\ bot' = [BotIdle EXCEPT !.pc = "ready", !.raised = TRUE]
    /\ UNCHANGED <<now, tickets, nextId, env, twilio_client, dash, closeLog, insertCount, turn, web, ext>>

\* Line 82 with lines 60-71: send_whatsapp(str(result.inserted_id), query).
send_whatsapp ==
    /\ bot.pc = "notify"
    /\ IF Configured
       THEN \E ok \in BOOLEAN :
              bot' = [bot EXCEPT !.pc = "return", !.sends = @ + 1,
                                 !.ticket_id = str(bot.inserted_id),
                                 !.attempts = @ + CreateCalls(ok),
                                 !.notice = IF ok THEN None ELSE "warning"]
       ELSE bot' = [bot EXCEPT !.pc = "return", !.sends = @ + 1, !.notice = "info",
                               !.ticket_id = str(bot.inserted_id)]
    /\ UNCHANGED <<now, tickets, nextId, env, twilio_client, dash, closeLog, insertCount, turn, web, ext>>

\* Line 83: return str(result.inserted_id); the frame is gone, the caller
\* holds the returned string.
CreateTicketReturn ==
    /\ bot.pc = "return"
    /\ bot' = [BotIdle EXCEPT !.pc = "ready", !.ret = str(bot.inserted_id)]
    /\ UNCHANGED <<now, tickets, nextId, env, twilio_client, dash, closeLog, insertCount, turn, web, ext>>

\* The UTC clock.
Tick ==
    /\ now < MaxTime
    /\ now' = now + 12
    /\ UNCHANGED <<tickets, nextId, env, twilio_client, bot, dash, closeLog, insertCount, turn, web, ext>>

\* ------------------------------------------------------- 2_Dashboard.py
update_one_no_filter(coll, oid, setdoc) == {setdoc @@ t : t \in coll}

update_one_if_open(coll, oid, setdoc) ==
    {IF t._id = oid /\ t.status = "open" THEN setdoc @@ t ELSE t : t \in coll}

\* update_one({"_id": oid}, {"$set": setdoc}): the fields of setdoc replace
\* or extend those of the matching document.
update_one(coll, oid, setdoc) ==
    {IF t._id = oid THEN setdoc @@ t ELSE t : t \in coll}

CloseSet_no_closed_at(t) == [status |-> "closed"]

\* The $set document of the Close Ticket button (line 1116).
CloseSet(t) == [status |-> "closed", closed_at |-> isoformat(t)]

\* Line 1089: round(seconds / 3600, 2), kept in hundredths of an hour.
\* Multiples of 12 seconds never fall on a rounding tie.
hours_open(t, created_at) ==
    (200 * (t - fromisoformat(created_at)) + 3600) \div 7200

\* One step of Python's stable sort, descending (reverse=True keeps the
\* original order of elements with equal keys): x, which precedes every
\* element of the sorted rest, goes before the first key not above its own.
RECURSIVE InsertDesc(_, _)
InsertDesc(x, s) ==
    IF s = <<>> \/ Head(s).hours_open <= x.hours_open
    THEN <<x>> \o s
    ELSE <<Head(s)>> \o InsertDesc(x, Tail(s))

\* Line 1091: sorted(open_tickets, key=hours_open, reverse=True).
RECURSIVE sorted(_)
sorted(s) == IF s = <<>> THEN <<>> ELSE InsertDesc(Head(s), sorted(Tail(s)))

Ids(s) == {s[i]._id : i \in 1..Len(s)}

\* The documents of S from the greatest closed_at down (equal values in
\* _id order).
RECURSIVE DescByClosedAt(_)
DescByClosedAt(S) ==
    IF S = {} THEN <<>>
    ELSE LET m == CHOOSE t \in S : \A u \in S :
                    \/ IsoLess(u.closed_at, t.closed_at)
                    \/ u.closed_at = t.closed_at /\ u._id >= t._id
         IN <<m>> \o DescByClosedAt(S \ {m})

Overflow_none(C) == 0

\* How many closed documents .limit(20) cuts off.
Overflow(C) ==
    IF Cardinality(C) > ClosedLimit THEN Cardinality(C) - ClosedLimit ELSE 0

\* Line 1125: find({"status": "closed"}).sort("closed_at", -1).limit(20).
\* The documents cut off are ones with the smallest closed_at; among equal
\* closed_at values the store may cut off any.
FindClosed(coll) ==
    LET C == find(coll, "closed")
        d == Overflow(C)
        Low == {t \in C : Cardinality({u \in C : IsoLess(u.closed_at, t.closed_at)}) < d}
        Drops == {D \in SUBSET Low :
                    /\ Cardinality(D) = d
                    /\ \A a \in D, b \in C \ D : ~IsoLess(b.closed_at, a.closed_at)}
    IN {DescByClosedAt(C \ D) : D \in Drops}

SessionStart ==
    [pc |-> "run", clicked |-> {}, open_tickets |-> <<>>, idx |-> 1,
     open_tickets_sorted |-> <<>>, closed_tickets |-> <<>>]

\* Line 1084: open_tickets = list(find({"status": "open"})), in whatever
\* order the cursor yields; an empty list goes to the else branch (line 1120).
FindOpen(s) ==
    /\ dash[s].pc = "run"
    /\ \E l \in Orders(find_open(tickets)) :
         dash' = [dash EXCEPT ![s].open_tickets = l,
                              ![s].idx = 1,
                              ![s].open_tickets_sorted = <<>>,
                              ![s].closed_tickets = <<>>,
                              ![s].pc = IF l = <<>> THEN "closed_tab" ELSE "age"]
    /\ UNCHANGED <<now, tickets, nextId, env, twilio_client, bot, closeLog, insertCount, turn, web, ext>>

\* Lines 1087-1089: one iteration of the aging loop; utcnow() is read anew
\* in every iteration.
AgeTicket(s) ==
    /\ dash[s].pc = "age"
    /\ LET i == dash[s].idx
           t == dash[s].open_tickets[i]
           aged == [hours_open |-> hours_open(now, t.created_at)] @@ t
       IN dash' = [dash EXCEPT ![s].open_tickets[i] = aged,
                               ![s].idx = i + 1,
                               ![s].pc = IF i = Len(dash[s].open_tickets)
                                         THEN "sort" ELSE "age"]
    /\ UNCHANGED <<now, tickets, nextId, env, twilio_client, bot, closeLog, insertCount, turn, web, ext>>

\* Line 1091.
SortOpen(s) ==
    /\ dash[s].pc = "sort"
    /\ dash' = [dash EXCEPT ![s].open_tickets_sorted = sorted(dash[s].open_tickets),
                            ![s].open_tickets = <<>>,
                            ![s].idx = 1,
                            ![s].pc = "render"]
    /\ UNCHANGED <<now, tickets, nextId, env, twilio_client, bot, closeLog, insertCount, turn, web, ext>>

\* Lines 1093-1118 when the button pressed before this run is rendered
\* again: st.button returns True for it, the ticket is updated and the
\* script reruns.
CloseTicket(s) ==
    /\ dash[s].pc = "render"
    /\ \E oid \in dash[s].clicked \cap Ids(dash[s].open_tickets_sorted) :
         /\ tickets' = update_one(tickets, oid, CloseSet(now))
         /\ closeLog' = closeLog \cup {<<oid, now>>}
    /\ dash' = [dash EXCEPT ![s].pc = "run", ![s].clicked = {},
                            ![s].open_tickets_sorted = <<>>]
    /\ UNCHANGED <<now, nextId, env, twilio_client, bot, insertCount, turn, web, ext>>

\* Lines 1093-1118 when no rendered button was pressed: every card is
\* drawn and the script goes on to the closed tab.
RenderOpen(s) ==
    /\ dash[s].pc = "render"
    /\ dash[s].clicked \cap Ids(dash[s].open_tickets_sorted) = {}
    /\ dash' = [dash EXCEPT ![s].pc = "closed_tab", ![s].clicked = {}]
    /\ UNCHANGED <<now, tickets, nextId, env, twilio_client, bot, closeLog, insertCount, turn, web, ext>>

\* Lines 1123-1144: the closed tab; the run ends and the page waits.
ListClosed(s) ==
    /\ dash[s].pc = "closed_tab"
    /\ \E l \in FindClosed(tickets) :
         dash' = [dash EXCEPT ![s].closed_tickets = l, ![s].clicked = {},
                              ![s].pc = "idle"]
    /\ UNCHANGED <<now, tickets, nextId, env, twilio_client, bot, closeLog, insertCount, turn, web, ext>>

\* The operator presses Close Ticket on a card of the rendered page: the
\* script reruns with that button's key set.
PressClose(s) ==
    /\ dash[s].pc = "idle"
    /\ \E oid \in Ids(dash[s].open_tickets_sorted) :
         dash' = [dash EXCEPT ![s].clicked = {oid}, ![s].pc = "run"]
    /\ UNCHANGED <<now, tickets, nextId, env, twilio_client, bot, closeLog, insertCount, turn, web, ext>>

\* Line 1084 when the store is unavailable: find raises, nothing catches
\* it, the script run ends there and the framework shows the exception.
FindOpenRaises(s) ==
    /\ dash[s].pc = "run"
    /\ dash' = [dash EXCEPT ![s] = [SessionStart EXCEPT !.pc = "aborted"]]
    /\ UNCHANGED <<now, tickets, nextId, env, twilio_client, bot, closeLog, insertCount, turn, web, ext>>

\* Line 1116 when the store is unavailable: update_one raises out of the
\* script run; the ticket is not updated.
CloseTicketRaises(s) ==
    /\ dash[s].pc = "render"
    /\ dash[s].clicked \cap Ids(dash[s].open_tickets_sorted) # {}
    /\ dash' = [dash EXCEPT ![s] = [SessionStart EXCEPT !.pc = "aborted"]]
    /\ UNCHANGED <<now, tickets, nextId, env, twilio_client, bot, closeLog, insertCount, turn, web, ext>>

\* Line 1125 when the store is unavailable: find raises out of the script
\* run.
ListClosedRaises(s) ==
    /\ dash[s].pc = "closed_tab"
    /\ dash' = [dash EXCEPT ![s] = [SessionStart EXCEPT !.pc = "aborted"]]
    /\ UNCHANGED <<now, tickets, nextId, env, twilio_client, bot, closeLog, insertCount, turn, web, ext>>

\* Any other interaction or a reload reruns the script, also after a run
\* that ended in an exception.
Rerun(s) ==
    /\ dash[s].pc \in {"idle", "aborted"}
    /\ dash' = [dash EXCEPT ![s].clicked = {}, ![s].pc = "run"]
    /\ UNCHANGED <<now, tickets, nextId, env, twilio_client, bot, closeLog, insertCount, turn, web, ext>>

\* Lines 16-28 of 2_Dashboard.py: MongoClient(mongo_uri) in a try block; an
\* exception stops the script, otherwise the script goes on to the page.
DashConnectMongo(s) ==
    /\ dash[s].pc = "boot"
    /\ \E ok \in {TRUE} \cup {~MongoClientMayRaise(env.mongo_uri)} :
         dash' = [dash EXCEPT ![s].pc = IF ok THEN "run" ELSE "stopped"]
    /\ UNCHANGED <<now, tickets, nextId, env, twilio_client, bot, closeLog, insertCount, turn, web, ext>>

\* ------------------------------------- the chat widget (html_content)
\* Typed texts are sequences of one-character strings; fixed phrases are
\* kept whole as one element.

\* String.prototype.trim(): white space off both ends.
RECURSIVE trimLeft(_)
trimLeft(t) == IF t # <<>> /\ Head(t) = " " THEN trimLeft(Tail(t)) ELSE t

RECURSIVE trimRight(_)
trimRight(t) ==
    IF t # <<>> /\ t[Len(t)] = " " THEN trimRight(SubSeq(t, 1, Len(t) - 1)) ELSE t

trim(t) == trimRight(trimLeft(t))

\* What the user may have typed when pressing send.
RawInputs == {<<" ">>, <<" ", "o", "k", " ">>}

\* The simulated replies (lines 1774 and 1801).
LocalResponse(messageText) == <<"You said: ">> \o messageText

BotResponse(messageText) == <<"Acknowledged: ">> \o messageText

\* The chat widget is not loaded.
WebClosed == [pc |-> "closed"]

\* The greeting element of the chat display (line 1155).  In a display
\* element, data_id 0 stands for no data-id attribute; origin records
\* which send put the element there and is not part of the page.
Greeting ==
    [sender |-> "bot", message |-> <<"Hello! How can I help you today?">>,
     data_id |-> 0, origin |-> <<0, "greeting">>]

\* The page as loaded: the auth form in sign-in mode (lines 1118, 1144,
\* 1149, 1352), the chat hidden (line 799), nobody signed in.  mode is
\* what initializeFirebaseAndAuth found; with Firebase active the
\* anonymous sign-in of line 1267 is under way.
WebOpen(mode) ==
    [pc |-> "open", mode |-> mode, view |-> "auth", user |-> "none",
     userId |-> "local", anonPending |-> (mode = "active"), authpc |-> "idle",
     isSigningUp |-> FALSE, submitText |-> "Sign In", chatMessages |-> <<Greeting>>, chats |-> {},
     nextDoc |-> 1, jobs |-> <<>>, delivered |-> {}, listenTo |-> "none",
     signIns |-> 0]

\* Lines 1254-1309, initializeFirebaseAndAuth: with a usable config
\* Firebase is active; without one, or on an error, the send and submit
\* buttons are disabled.
initializeFirebaseAndAuth ==
    /\ web.pc = "closed"
    /\ \E mode \in {"active", "disabled"} : web' = WebOpen(mode)
    /\ UNCHANGED <<now, tickets, nextId, env, twilio_client, bot, dash, closeLog, insertCount, turn, ext>>

\* setupChatListener, lines 1831-1835: the previous listener is dropped
\* and, with Firebase active and a user, a new one subscribes to that
\* user's chats; its first snapshot reports every document as added.
setupChatListener(w, user) ==
    IF w.mode = "active" /\ user # "none"
    THEN [w EXCEPT !.listenTo = user, !.delivered = {}]
    ELSE [w EXCEPT !.listenTo = "none", !.delivered = {}]

\* Lines 1266-1282: signInAnonymously resolves; the auth state callback
\* takes the new user and sets the listener up.  The chats of an earlier
\* anonymous user are out of reach from then on.
AnonSignInResolves ==
    /\ web.pc = "open"
    /\ web.anonPending
    /\ LET w == [web EXCEPT
                   !.anonPending = FALSE, !.user = "anon", !.userId = "anon",
                   !.chats = {IF d.owner = "anon" THEN [d EXCEPT !.owner = "gone"]
                              ELSE d : d \in @}] IN
       web' = setupChatListener(w, "anon")
    /\ UNCHANGED <<now, tickets, nextId, env, twilio_client, bot, dash, closeLog, insertCount, turn, ext>>

\* Lines 1269-1274: signInAnonymously rejects; isFirebaseActive is cleared.
AnonSignInRejects ==
    /\ web.pc = "open"
    /\ web.anonPending
    /\ web' = [web EXCEPT !.anonPending = FALSE, !.mode = "offline",
                          !.userId = "local"]
    /\ UNCHANGED <<now, tickets, nextId, env, twilio_client, bot, dash, closeLog, insertCount, turn, ext>>

\* The toggle handler, lines 1696-1731: the mode flips and the submit
\* button is relabelled.  (The rewriting of the link text that follows,
\* lines 1726-1737, changes neither.)
toggle(w) ==
    [w EXCEPT !.isSigningUp = ~@,
              !.submitText = IF w.isSigningUp THEN "Sign In" ELSE "Sign Up"]

\* The user clicks the toggle link of the auth form.
ToggleAuthClick ==
    /\ web.pc = "open"
    /\ web.view = "auth"
    /\ web.authpc = "idle"
    /\ web' = toggle(web)
    /\ UNCHANGED <<now, tickets, nextId, env, twilio_client, bot, dash, closeLog, insertCount, turn, ext>>

\* The submit handler, lines 1629-1670: with Firebase active the sign-in
\* or sign-up resolves and the auth state callback sets the listener up;
\* in sign-up mode the profile write of line 1665 may reject, and then
\* the catch block leaves the form in place.
AuthSubmitResolves ==
    /\ web.pc = "open"
    /\ web.view = "auth"
    /\ web.authpc = "idle"
    /\ web.mode = "active"
    /\ web.signIns < MaxSignIns
    /\ \E ok \in {TRUE} \cup {~web.isSigningUp} :
         web' = setupChatListener(
                  [web EXCEPT !.user = "account", !.userId = "account",
                              !.signIns = @ + 1,
                              !.authpc = IF ok THEN "signed_in" ELSE "idle"],
                  "account")
    /\ UNCHANGED <<now, tickets, nextId, env, twilio_client, bot, dash, closeLog, insertCount, turn, ext>>

\* Every job in flight belongs to the display that is being replaced.
MarkStale(jobs) == [j \in 1..Len(jobs) |-> [jobs[j] EXCEPT !.stale = TRUE]]

\* showChatbotAfterAuth, lines 1507-1521: the chat is shown, its display
\* starts over from the greeting and the listener is set up again.
showChatbotAfterAuth ==
    /\ web.pc = "open"
    /\ web.authpc = "signed_in"
    /\ web' = setupChatListener(
                [web EXCEPT !.view = "chat", !.authpc = "idle",
                            !.chatMessages = <<Greeting>>,
                            !.jobs = MarkStale(@)],
                web.user)
    /\ UNCHANGED <<now, tickets, nextId, env, twilio_client, bot, dash, closeLog, insertCount, turn, ext>>

\* The sign-out handler up to its await, lines 1741-1744: signOut
\* resolves; the auth state callback then starts an anonymous sign-in
\* (lines 1264-1267).
SignOutResolves ==
    /\ web.pc = "open"
    /\ web.view = "chat"
    /\ web.authpc = "idle"
    /\ web.user = "account"
    /\ web' = [web EXCEPT !.user = "none", !.anonPending = TRUE,
                          !.authpc = "signed_out"]
    /\ UNCHANGED <<now, tickets, nextId, env, twilio_client, bot, dash, closeLog, insertCount, turn, ext>>

\* The rest of the sign-out handler, lines 1745-1752: the form is shown,
\* the display starts over from the greeting, and the toggle handler is run.
SignOutContinues ==
    /\ web.pc = "open"
    /\ web.authpc = "signed_out"
    /\ web' = toggle([web EXCEPT !.view = "auth", !.authpc = "idle",
                                 !.chatMessages = <<Greeting>>,
                                 !.jobs = MarkStale(@)])
    /\ UNCHANGED <<now, tickets, nextId, env, twilio_client, bot, dash, closeLog, insertCount, turn, ext>>

\* addMessageToChat (lines 1818-1824): a new element at the end, without
\* a data-id attribute.
addMessageToChat_prepend(display, sender, message, origin) ==
    <<[sender |-> sender, message |-> message, data_id |-> 0, origin |-> origin]>>
      \o display

addMessageToChat(display, sender, message, origin) ==
    Append(display, [sender |-> sender, message |-> message, data_id |-> 0,
                     origin |-> origin])

\* Lines 1763-1777 and 1779-1794, the click handler up to its first await:
\* an empty message returns at once; otherwise the message is shown, and
\* either the local reply is scheduled (Firebase inactive) or addDoc for the
\* user message is started.  The button can be pressed while the chat is
\* shown and the button is enabled.
SendClick ==
    /\ web.pc = "open"
    /\ web.view = "chat"
    /\ web.mode # "disabled"
    /\ Len(web.jobs) < MaxSends
    /\ \E raw \in RawInputs :
         LET messageText == trim(raw)
             j == Len(web.jobs) + 1 IN
         IF messageText = <<>>
         THEN web' = web
         ELSE web' = [web EXCEPT
                !.chatMessages = addMessageToChat(@, "user", messageText, <<j, "user">>),
                !.jobs = Append(@, [text |-> messageText, stale |-> FALSE,
                                    pc |-> IF web.mode = "active" THEN "persist_user"
                                           ELSE "timer_local"])]
    /\ UNCHANGED <<now, tickets, nextId, env, twilio_client, bot, dash, closeLog, insertCount, turn, ext>>

\* Jobs that reached the same point of the handler leave it in the order
\* they came: timeouts of equal delay fire in the order they were set, and
\* the writes of one client are settled in the order they were issued.
InTurn(j) == \A i \in 1..(j - 1) : web.jobs[i].pc # web.jobs[j].pc

\* Lines 1772-1775: the 500 ms timeout of the offline branch fires.
LocalTimerFires(j) ==
    /\ web.pc = "open"
    /\ InTurn(j)
    /\ web.jobs[j].pc = "timer_local"
    /\ web' = [web EXCEPT
          !.chatMessages = addMessageToChat(@, "bot", LocalResponse(web.jobs[j].text),
                                            <<j, "bot">>),
          !.jobs[j].pc = "done"]
    /\ UNCHANGED <<now, tickets, nextId, env, twilio_client, bot, dash, closeLog, insertCount, turn, ext>>

\* Lines 1791-1795: addDoc for the user message resolves; the 1000 ms
\* timeout for the reply is set (line 1799).
AddDocUserResolves(j) ==
    /\ web.pc = "open"
    /\ InTurn(j)
    /\ web.jobs[j].pc = "persist_user"
    /\ web' = [web EXCEPT
          !.chats = @ \cup {[id |-> web.nextDoc, sender |-> "user",
                             message |-> web.jobs[j].text, owner |-> web.userId,
                             origin |-> <<j, "user">>]},
          !.nextDoc = @ + 1,
          !.jobs[j].pc = "timer"]
    /\ UNCHANGED <<now, tickets, nextId, env, twilio_client, bot, dash, closeLog, insertCount, turn, ext>>

\* Lines 1811-1814: addDoc for the user message rejects; the catch block
\* shows the failure and the handler ends, the timeout is never set.
AddDocUserRejects(j) ==
    /\ web.pc = "open"
    /\ InTurn(j)
    /\ web.jobs[j].pc = "persist_user"
    /\ web' = [web EXCEPT !.jobs[j].pc = "failed"]
    /\ UNCHANGED <<now, tickets, nextId, env, twilio_client, bot, dash, closeLog, insertCount, turn, ext>>

\* Lines 1799-1803: the timeout fires; the reply is shown and addDoc for
\* it is started.
TimerFires(j) ==
    /\ web.pc = "open"
    /\ InTurn(j)
    /\ web.jobs[j].pc = "timer"
    /\ web' = [web EXCEPT
          !.chatMessages = addMessageToChat(@, "bot", BotResponse(web.jobs[j].text),
                                            <<j, "bot">>),
          !.jobs[j].pc = "persist_bot"]
    /\ UNCHANGED <<now, tickets, nextId, env, twilio_client, bot, dash, closeLog, insertCount, turn, ext>>

\* Lines 1803-1807: addDoc for the reply resolves, or rejects inside the
\* timeout callback, where nothing catches it.
AddDocBotSettles(j) ==
    /\ web.pc = "open"
    /\ InTurn(j)
    /\ web.jobs[j].pc = "persist_bot"
    /\ \E ok \in BOOLEAN :
         web' = [web EXCEPT
           !.chats = IF ok THEN @ \cup {[id |-> web.nextDoc, sender |-> "bot",
                                          message |-> BotResponse(web.jobs[j].text),
                                          owner |-> web.userId,
                                          origin |-> <<j, "bot">>]}
                     ELSE @,
           !.nextDoc = IF ok THEN @ + 1 ELSE @,
           !.jobs[j].pc = IF ok THEN "done" ELSE "reply_unsaved"]
    /\ UNCHANGED <<now, tickets, nextId, env, twilio_client, bot, dash, closeLog, insertCount, turn, ext>>

\* The documents the listener reports: the chats of the user it
\* subscribed to.
Listened == {d \in web.chats : d.owner = web.listenTo}

\* Lines 1835-1850, the onSnapshot callback of setupChatListener for one
\* added document, oldest first: it is shown unless an element with its
\* data-id is there already.
SnapshotAdded ==
    /\ web.pc = "open"
    /\ \E d \in Listened :
         /\ d.id \notin web.delivered
         /\ \A e \in Listened : e.id < d.id => e.id \in web.delivered
         /\ web' = [web EXCEPT
               !.delivered = @ \cup {d.id},
               !.chatMessages =
                  IF \E i \in 1..Len(@) : @[i].data_id = d.id
                  THEN @
                  ELSE Append(@, [sender |-> d.sender, message |-> d.message,
                                  data_id |-> d.id, origin |-> d.origin])]
    /\ UNCHANGED <<now, tickets, nextId, env, twilio_client, bot, dash, closeLog, insertCount, turn, ext>>

\* ------------------------------------- the conversation turn handler
\* Escalation policy and turn handler as the design describes them (4.1,
\* 4.2); create_ticket is the function of lines 74-83.

Upper ==
    <<"A", "B", "C", "D", "E", "F", "G", "H", "I", "J", "K", "L", "M", "N",
      "O", "P", "Q", "R", "S", "T", "U", "V", "W", "X", "Y", "Z">>

Lower ==
    <<"a", "b", "c", "d", "e", "f", "g", "h", "i", "j", "k", "l", "m", "n",
      "o", "p", "q", "r", "s", "t", "u", "v", "w", "x", "y", "z">>

lower_char(c) ==
    IF \E i \in 1..26 : Upper[i] = c
    THEN Lower[CHOOSE i \in 1..26 : Upper[i] = c]
    ELSE c

\* str.lower()
lower_identity(t) == t

lower(t) == [i \in 1..Len(t) |-> lower_char(t[i])]

\* needle in hay
Contains(hay, needle) ==
    \E i \in 0..(Len(hay) - Len(needle)) :
       SubSeq(hay, i + 1, i + Len(needle)) = needle

\* The sentence SYSTEM_PROMPT tells the model to say when it cannot
\* answer (line 94).
FallbackSentence_plain ==
    <<"I", " ", "c", "a", "n", " ", "o", "n", "l", "y", " ", "h", "e", "l", "p", " ",
      "w", "i", "t", "h", " ", "A", "P", "I", "H", "u", "b", ".">>

FallbackSentence ==
    <<"I", " ", "c", "a", "n", "n", "o", "t", " ", "r", "e", "s", "o", "l", "v", "e",
      " ", "t", "h", "i", "s", ".", " ", "A", " ", "s", "u", "p", "p", "o", "r", "t",
      " ", "t", "i", "c", "k", "e", "t", " ", "w", "i", "l", "l", " ", "b", "e", " ",
      "c", "r", "e", "a", "t", "e", "d", ".">>

\* Other answers of the model: a plain one, a marker in capitals, a marker
\* inside a longer word, and a near miss.
AnswerLimit ==
    <<"T", "h", "e", " ", "l", "i", "m", "i", "t", " ", "i", "s", " ", "1", "0", "0",
      " ", "p", "e", "r", " ", "m", "i", "n", "u", "t", "e", ".">>

AnswerUnsure ==
    <<"H", "m", "m", ",", " ", "I", "'", "M", " ", "N", "O", "T", " ", "S", "U", "R",
      "E", " ", "a", "b", "o", "u", "t", " ", "t", "h", "a", "t", ".">>

AnswerInside ==
    <<"A", "s", "k", " ", "t", "h", "e", " ", "c", "o", "n", "t", "a", "c", "t", " ",
      "s", "u", "p", "p", "o", "r", "t", "e", "r", "s", ".">>

AnswerNearMiss ==
    <<"I", " ", "c", "a", "n", " ", "n", "o", "t", " ", "r", "e", "s", "o", "l", "v",
      "e", " ", "i", "t", ".">>

Answers == {FallbackSentence, AnswerLimit, AnswerUnsure, AnswerInside, AnswerNearMiss}

\* The marker phrases of the escalation policy.
MarkerPhrases ==
    {<<"i", " ", "c", "a", "n", "n", "o", "t", " ", "r", "e", "s", "o", "l", "v", "e", " ", "t", "h", "i", "s">>,
     <<"n", "o", "t", " ", "r", "e", "l", "a", "t", "e", "d">>,
     <<"o", "f", "f", "-", "t", "o", "p", "i", "c">>,
     <<"i", "'", "m", " ", "n", "o", "t", " ", "s", "u", "r", "e">>,
     <<"c", "o", "n", "t", "a", "c", "t", " ", "s", "u", "p", "p", "o", "r", "t">>,
     <<"t", "i", "c", "k", "e", "t", " ", "w", "i", "l", "l", " ", "b", "e", " ", "c", "r", "e", "a", "t", "e", "d">>,
     <<"u", "n", "a", "b", "l", "e", " ", "t", "o", " ", "p", "r", "o", "v", "i", "d", "e", " ", "a", "n", " ", "a", "n", "s", "w", "e", "r">>}

\* The escalation policy on an answer.
needs_ticket(answer) == \E m \in MarkerPhrases : Contains(lower(answer), m)

\* The built-in commands in matching order, each with its aliases.
Commands ==
    <<[name |-> "help",
       aliases |-> {<<"s", "h", "o", "w", " ", "h", "e", "l", "p">>,
                    <<"c", "o", "m", "m", "a", "n", "d", "s">>}],
      [name |-> "tickets",
       aliases |-> {<<"s", "h", "o", "w", " ", "r", "e", "c", "e", "n", "t", " ", "s", "u", "p", "p", "o", "r", "t", " ", "t", "i", "c", "k", "e", "t", "s">>,
                    <<"s", "h", "o", "w", " ", "t", "i", "c", "k", "e", "t", "s">>}],
      [name |-> "stats",
       aliases |-> {<<"s", "h", "o", "w", " ", "a", "p", "i", " ", "u", "s", "a", "g", "e", " ", "s", "t", "a", "t", "i", "s", "t", "i", "c", "s">>,
                    <<"s", "h", "o", "w", " ", "a", "p", "i", " ", "s", "t", "a", "t", "s">>}],
      [name |-> "contact",
       aliases |-> {<<"s", "h", "o", "w", " ", "c", "o", "n", "t", "a", "c", "t", " ", "i", "n", "f", "o", "r", "m", "a", "t", "i", "o", "n">>,
                    <<"s", "h", "o", "w", " ", "c", "o", "n", "t", "a", "c", "t">>,
                    <<"c", "o", "n", "t", "a", "c", "t", " ", "s", "u", "p", "p", "o", "r", "t">>}],
      [name |-> "manual",
       aliases |-> {<<"c", "r", "e", "a", "t", "e", " ", "m", "a", "n", "u", "a", "l", " ", "s", "u", "p", "p", "o", "r", "t", " ", "t", "i", "c", "k", "e", "t">>,
                    <<"n", "e", "w", " ", "t", "i", "c", "k", "e", "t">>}]>>

\* The commands an utterance matches, on its lower-cased, trimmed text.
Matching(utterance) ==
    {k \in 1..Len(Commands) :
       \E a \in Commands[k].aliases : Contains(lower(trim(utterance)), a)}

\* First matching command wins; 0 when none matches.
MatchCommand(utterance) ==
    IF Matching(utterance) = {} THEN 0
    ELSE CHOOSE k \in Matching(utterance) : \A l \in Matching(utterance) : k <= l

\* The canned content of a command.
Canned(k) == <<"canned: ", Commands[k].name>>

\* What the user may type.
UtterHelp ==
    <<"s", "h", "o", "w", " ", "h", "e", "l", "p">>

UtterTickets ==
    <<" ", "S", "h", "o", "w", " ", "T", "i", "c", "k", "e", "t", "s", " ">>

UtterContact ==
    <<"p", "l", "s", " ", "C", "O", "N", "T", "A", "C", "T", " ", "S", "U", "P", "P",
      "O", "R", "T">>

UtterWeather ==
    <<"W", "h", "a", "t", "'", "s", " ", "t", "h", "e", " ", "w", "e", "a", "t", "h",
      "e", "r", " ", "t", "o", "d", "a", "y", "?">>

UtterLimit ==
    <<"r", "a", "t", "e", " ", "l", "i", "m", "i", "t", "?">>

Utterances == {UtterHelp, UtterTickets, UtterContact, UtterWeather, UtterLimit}

\* The contact of an escalation: the one captured earlier, or "anonymous"
\* (the default of create_ticket, line 74).
ContactOf(captured) == IF captured = None THEN "anonymous" ELSE captured

\* The notices appended to the reply.
TicketNotice(id) == <<" A support ticket has been created, ID: ", id>>

DegradedNotice == <<" I also could not log this, please contact support directly.">>

\* No turn is being handled (lines 107-108: the transcript starts empty).
TurnIdle ==
    [pc |-> "idle", utterance |-> <<>>, answer |-> <<>>, response |-> <<>>,
     path |-> None, needs_ticket |-> FALSE, model_calls |-> 0, ticket_calls |-> 0,
     ticket_id |-> None, signal |-> None, first_id |-> 0, captured |-> None,
     chat_history |-> <<>>]

\* A user turn arrives; the page is up.
TurnStart ==
    /\ turn.pc = "idle"
    /\ bot.pc = "ready"
    /\ Len(turn.chat_history) < 2 * MaxTurns
    /\ \E u \in Utterances :
         turn' = [TurnIdle EXCEPT
                    !.pc = "command", !.utterance = u, !.first_id = nextId,
                    !.captured = turn.captured,
                    !.chat_history = Append(turn.chat_history,
                                            [role |-> "user", content |-> u])]
    /\ UNCHANGED <<now, tickets, nextId, env, twilio_client, bot, dash, closeLog, insertCount, web, ext>>

\* Command interception: a match gives the canned content, no model call.
TurnCommand ==
    /\ turn.pc = "command"
    /\ LET k == MatchCommand(turn.utterance) IN
       turn' = IF k # 0
               THEN [turn EXCEPT !.pc = "append", !.path = "command",
                                 !.response = Canned(k)]
               ELSE [turn EXCEPT !.pc = "model"]
    /\ UNCHANGED <<now, tickets, nextId, env, twilio_client, bot, dash, closeLog, insertCount, web, ext>>

\* Model path: the model answers, or the invocation raises.
TurnInvoke ==
    /\ turn.pc = "model"
    /\ \/ \E a \in Answers :
            turn' = [turn EXCEPT !.pc = "policy", !.answer = a,
                                 !.model_calls = @ + 1]
       \/ turn' = [turn EXCEPT !.pc = "ticket", !.path = "exception",
                                !.needs_ticket = TRUE, !.model_calls = @ + 1]
    /\ UNCHANGED <<now, tickets, nextId, env, twilio_client, bot, dash, closeLog, insertCount, web, ext>>

\* The escalation policy is applied to the answer.
TurnPolicy ==
    /\ turn.pc = "policy"
    /\ turn' = IF needs_ticket(turn.answer)
               THEN [turn EXCEPT !.pc = "ticket", !.path = "escalation",
                                 !.needs_ticket = TRUE]
               ELSE [turn EXCEPT !.pc = "append", !.path = "answer",
                                 !.response = turn.answer]
    /\ UNCHANGED <<now, tickets, nextId, env, twilio_client, bot, dash, closeLog, insertCount, web, ext>>

\* The handler calls create_ticket (lines 74-80): the utterance as query,
\* and as contact the failure marker on the exception path.
TurnCreateTicket ==
    /\ turn.pc = "ticket"
    /\ bot.pc = "ready"
    /\ LET contact == IF turn.path = "exception" THEN "AI Chatbot Failure"
                      ELSE ContactOf(turn.captured) IN
       bot' = [BotIdle EXCEPT !.pc = "insert",
                              !.ticket = NewTicket(turn.utterance, contact, now)]
    /\ turn' = [turn EXCEPT !.pc = "creating", !.ticket_calls = @ + 1]
    /\ UNCHANGED <<now, tickets, nextId, env, twilio_client, dash, closeLog, insertCount, web, ext>>

\* create_ticket has returned an id, or has raised: the notice with the id,
\* or the degraded notice; no second call.
TurnTicketDone ==
    /\ turn.pc = "creating"
    /\ bot.pc = "ready"
    /\ LET head == IF turn.path = "exception" THEN <<"Error: ", "timeout">>
                   ELSE turn.answer IN
       turn' = IF bot.ret # None
               THEN [turn EXCEPT !.pc = "append", !.ticket_id = bot.ret,
                                 !.response = head \o TicketNotice(bot.ret),
                                 !.signal = IF turn.path = "exception" THEN "error"
                                            ELSE "success"]
               ELSE [turn EXCEPT !.pc = "append",
                                 !.response = head \o DegradedNotice,
                                 !.signal = "error"]
    /\ bot' = [bot EXCEPT !.ret = None, !.raised = FALSE]
    /\ UNCHANGED <<now, tickets, nextId, env, twilio_client, dash, closeLog, insertCount, web, ext>>

\* The reply is appended to the transcript as the assistant turn.
TurnAppend ==
    /\ turn.pc = "append"
    /\ turn' = [turn EXCEPT !.pc = "idle",
                            !.chat_history = Append(@, [role |-> "assistant",
                                                        content |-> turn.response])]
    /\ UNCHANGED <<now, tickets, nextId, env, twilio_client, bot, dash, closeLog, insertCount, web, ext>>

\* ------------------------------------- display computations (2_Dashboard.py)

\* API_CONFIGS, lines 33-119.  Error rates are in hundredths of a percent.
API_CONFIGS ==
    [ImageAPI |-> [quota_daily |-> 10000, base_latency_ms |-> 50, latency_variation |-> 20,
                   base_error_rate |-> 50, error_rate_variation |-> 50],
     VideoAPI |-> [quota_daily |-> 5000, base_latency_ms |-> 80, latency_variation |-> 30,
                   base_error_rate |-> 120, error_rate_variation |-> 100],
     WeatherAPI |-> [quota_daily |-> 20000, base_latency_ms |-> 30, latency_variation |-> 10,
                     base_error_rate |-> 10, error_rate_variation |-> 10],
     EcommerceAPI |-> [quota_daily |-> 15000, base_latency_ms |-> 60, latency_variation |-> 25,
                       base_error_rate |-> 80, error_rate_variation |-> 70],
     QRCodeAPI |-> [quota_daily |-> 8000, base_latency_ms |-> 45, latency_variation |-> 15,
                    base_error_rate |-> 30, error_rate_variation |-> 30],
     ProfilePhotoAPI |-> [quota_daily |-> 7000, base_latency_ms |-> 70, latency_variation |-> 28,
                          base_error_rate |-> 60, error_rate_variation |-> 60],
     JokesAPI |-> [quota_daily |-> 25000, base_latency_ms |-> 25, latency_variation |-> 10,
                   base_error_rate |-> 5, error_rate_variation |-> 5]]

Max(a, b) == IF a >= b THEN a ELSE b

\* np.random.rand() is k / DrawSteps for a k in 0..DrawSteps-1; values
\* that stem from a draw are kept multiplied by DrawSteps.
\* Line 278: error rate above 2 x base, or latency above 1.5 x base.
is_warning_at_base(config, err, lat) ==
    \/ err > config.base_error_rate * DrawSteps
    \/ lat > config.base_latency_ms * DrawSteps

is_warning(config, err, lat) ==
    \/ err > 2 * config.base_error_rate * DrawSteps
    \/ 2 * lat > 3 * config.base_latency_ms * DrawSteps

\* Line 281: error rate above 4 x base, or latency above 2.5 x base.
is_critical(config, err, lat) ==
    \/ err > 4 * config.base_error_rate * DrawSteps
    \/ 2 * lat > 5 * config.base_latency_ms * DrawSteps

\* get_api_health, lines 261-285: the status and the icon for two draws.
\* Lines 269-273: base + (rand * 2 - 1) * variation, at least 10 ms for
\* the latency and 0.01 percent for the error rate.
get_api_health(api_name, k1, k2) ==
    LET config == API_CONFIGS[api_name]
        lat == Max(10 * DrawSteps,
                   config.base_latency_ms * DrawSteps
                     + (2 * k1 - DrawSteps) * config.latency_variation)
        err == Max(1 * DrawSteps,
                   config.base_error_rate * DrawSteps
                     + (2 * k2 - DrawSteps) * config.error_rate_variation)
        status == IF is_critical(config, err, lat) THEN "critical"
                  ELSE IF is_warning(config, err, lat) THEN "warning"
                  ELSE "healthy"
    IN [status |-> status,
        icon |-> IF status = "critical" THEN "red"
                 ELSE IF status = "warning" THEN "yellow" ELSE "green",
        latency |-> lat, error_rate |-> err]

\* Lines 594-604 of the "Quota per API" view: the message under the two
\* metrics.  quota_val * 0.2 is exactly a fifth for every configured quota.
quota_message(quota_val, remaining_quota) ==
    IF remaining_quota <= 0 THEN "error"
    ELSE IF 5 * remaining_quota < quota_val THEN "warning"
    ELSE "success"

\* Lines 885-890, the rotation reminder of a key; times in days.
rotation_reminder(status, expires_at, utcnow) ==
    IF expires_at < utcnow + 30 /\ status = "active" THEN "warning"
    ELSE IF expires_at < utcnow /\ status = "active" THEN "error"
    ELSE "none"

\* No computation has been shown yet.
CalcIdle == [fn |-> "none"]

\* The health badge of an API is computed.
GetApiHealth ==
    /\ \E api_name \in DOMAIN API_CONFIGS, k1 \in 0..(DrawSteps - 1),
          k2 \in 0..(DrawSteps - 1) :
         calc' = [fn |-> "get_api_health", api |-> api_name, k1 |-> k1, k2 |-> k2,
                  result |-> get_api_health(api_name, k1, k2)]
    /\ UNCHANGED <<core, seed, admin, slider>>

\* The "Quota per API" view of an API is rendered (lines 586-604), for
\* usages around the points where the message changes.
QuotaView ==
    /\ \E api_name \in DOMAIN API_CONFIGS :
         LET quota_val == API_CONFIGS[api_name].quota_daily IN
         /\ quota_val > 0
         /\ \E current_daily_usage \in
                 {0, quota_val - quota_val \div 5 - 1, quota_val - quota_val \div 5,
                  quota_val - quota_val \div 5 + 1, quota_val - 1, quota_val,
                  quota_val + 1} :
              LET remaining_quota == quota_val - current_daily_usage IN
              calc' = [fn |-> "quota", api |-> api_name, quota_val |-> quota_val,
                       remaining_quota |-> remaining_quota,
                       messages |-> {quota_message(quota_val, remaining_quota)}]
    /\ UNCHANGED <<core, seed, admin, slider>>

\* The reminder under a key of the "Manage API Keys" expander is rendered.
KeyReminder ==
    /\ \E status \in {"active", "inactive"}, 
          off \in {-40, -1, 0, 1, 29, 30, 31, 365}, today \in 100..101 :
         calc' = [fn |-> "rotation_reminder", status |-> status, utcnow |-> today,
                  expires_at |-> today + off,
                  result |-> rotation_reminder(status, today + off, today)]
    /\ UNCHANGED <<core, seed, admin, slider>>

\* ------------------------------------- start-up seeding (2_Dashboard.py)

\* Dashboard sessions that start against the same store.
SeedSessions == {"s1", "s2", "s3"}

\* logs and users count the insert_many calls that reached the
\* collection: each puts 50000 log entries, or the 20 users user_1 ..
\* user_20, into it.  No session has started.
SeedIdle ==
    [logs |-> 0, users |-> 0, pc |-> [s \in SeedSessions |-> "closed"]]

\* A session opens the dashboard: the script starts.
SeedStart(s) ==
    /\ seed.pc[s] = "closed"
    /\ seed' = [seed EXCEPT !.pc[s] = "check_logs"]
    /\ UNCHANGED <<core, calc, admin, slider>>

\* Line 164: logs_collection.count_documents({}) == 0.
CheckLogs(s) ==
    /\ seed.pc[s] = "check_logs"
    /\ seed' = [seed EXCEPT !.pc[s] = IF seed.logs = 0 THEN "insert_logs"
                                      ELSE "check_users"]
    /\ UNCHANGED <<core, calc, admin, slider>>

\* Lines 166-170: insert_many(dummy_logs), then st.rerun(): the script
\* starts again from the top.
InsertLogs(s) ==
    /\ seed.pc[s] = "insert_logs"
    /\ seed' = [seed EXCEPT !.logs = @ + 1, !.pc[s] = "check_logs"]
    /\ UNCHANGED <<core, calc, admin, slider>>

\* Line 172: users_collection.count_documents({}) == 0.
CheckUsers(s) ==
    /\ seed.pc[s] = "check_users"
    /\ seed' = [seed EXCEPT !.pc[s] = IF seed.users = 0 THEN "insert_users"
                                      ELSE "seeded"]
    /\ UNCHANGED <<core, calc, admin, slider>>

\* Lines 174-178: insert_many(dummy_users), then st.rerun().
InsertUsers(s) ==
    /\ seed.pc[s] = "insert_users"
    /\ seed' = [seed EXCEPT !.users = @ + 1, !.pc[s] = "check_logs"]
    /\ UNCHANGED <<core, calc, admin, slider>>

\* ------------------------------------- admin panels (2_Dashboard.py)

\* The page as first run: the role selector at its default "Admin"
\* (line 348), two seeded users, no keys.  users holds the user ids in
\* the collection; rendered holds the buttons and forms the last script
\* run put on the page; log records every write with the role of the run
\* that made it.
ButtonsFor_any_role(role, users, keys) ==
    {<<"deactivate", k.key_id>> : k \in {x \in keys : x.status = "active"}}
      \cup {<<"activate", k.key_id>> : k \in {x \in keys : x.status # "active"}}
      \cup {<<"gen_key", u>> : u \in {x \in users : \A k \in keys : k.user_id # x}}
      \cup {<<"new_user_form", "">>, <<"generate_key_form", "">>}

\* What one script run renders: the key buttons of lines 872-883 and 894-897
\* and the forms of lines 907-911 and 938-951, each under its role test.
ButtonsFor(role, users, keys) ==
    IF role = "Admin" THEN ButtonsFor_any_role(role, users, keys) ELSE {}

AdminIdle ==
    [role |-> "Admin", users |-> {"user_1", "user_2"}, api_keys |-> {},
     nextKey |-> 1, log |-> {},
     rendered |-> ButtonsFor("Admin", {"user_1", "user_2"}, {})]

\* The end of a script run: the page shows what the run rendered.
Render(a) == [a EXCEPT !.rendered = ButtonsFor(a.role, a.users, a.api_keys)]

\* Lines 345-350: another role is picked in the sidebar; the script reruns.
SelectRole ==
    /\ \E r \in {"Developer", "Admin", "Viewer"} : admin' = Render([admin EXCEPT !.role = r])
    /\ UNCHANGED <<core, calc, seed, slider>>

\* update_api_key_status, lines 308-312.
update_api_key_status(keys, key_id, status) ==
    {IF k.key_id = key_id THEN [k EXCEPT !.status = status] ELSE k : k \in keys}

\* The record generate_api_key inserts, lines 289-303.
new_key(key_id, user_id, api_name) ==
    [key_id |-> key_id, user_id |-> user_id, api |-> api_name, status |-> "active"]

\* Lines 879-883: Deactivate or Activate is pressed on a rendered key;
\* the rerun reaches the button and calls update_api_key_status.
ClickKeyStatus ==
    /\ \E b \in admin.rendered :
         /\ b[1] \in {"deactivate", "activate"}
         /\ admin' = Render([admin EXCEPT
               !.api_keys = update_api_key_status(@, b[2],
                              IF b[1] = "deactivate" THEN "inactive" ELSE "active"),
               !.log = @ \cup {<<admin.role, "update_key", b[2]>>}])
    /\ UNCHANGED <<core, calc, seed, slider>>

\* Lines 894-897: "Generate New Key" is pressed for a user without keys.
\* The selectbox of line 896 is created in the same run, so it holds its
\* first option, the first API of API_CONFIGS.
ClickGenerateKey ==
    /\ admin.nextKey <= MaxKeys
    /\ \E b \in admin.rendered :
         /\ b[1] = "gen_key"
         /\ admin' = Render([admin EXCEPT
               !.api_keys = @ \cup {new_key(admin.nextKey, b[2], "ImageAPI")},
               !.nextKey = @ + 1,
               !.log = @ \cup {<<admin.role, "insert_key", admin.nextKey>>}])
    /\ UNCHANGED <<core, calc, seed, slider>>

\* Lines 908-926: the "Add User" form is submitted; the user is inserted
\* when both fields are filled in.
SubmitAddUser ==
    /\ <<"new_user_form", "">> \in admin.rendered
    /\ \E new_user_id \in {"", "new_user"}, new_user_email \in {"", "a@b.c"} :
         admin' = IF new_user_id # "" /\ new_user_email # ""
                  THEN Render([admin EXCEPT
                         !.users = @ \cup {new_user_id},
                         !.log = @ \cup {<<admin.role, "insert_user", new_user_id>>}])
                  ELSE Render(admin)
    /\ UNCHANGED <<core, calc, seed, slider>>

\* Lines 939-964: the "Generate Key" form is submitted, for a listed user
\* or for a new one, who is inserted first.
SubmitGenerateKey ==
    /\ <<"generate_key_form", "">> \in admin.rendered
    /\ admin.nextKey <= MaxKeys
    /\ \E key_user_id \in admin.users \cup {"Create New User..."},
          new_user_for_key_input \in {"", "new_user"},
          api_name \in {"ImageAPI", "JokesAPI"} :
         admin' =
           IF key_user_id = "Create New User..."
           THEN IF new_user_for_key_input # ""
                THEN Render([admin EXCEPT
                       !.users = @ \cup {new_user_for_key_input},
                       !.api_keys = @ \cup {new_key(admin.nextKey,
                                                     new_user_for_key_input, api_name)},
                       !.nextKey = @ + 1,
                       !.log = @ \cup {<<admin.role, "insert_user", new_user_for_key_input>>,
                                        <<admin.role, "insert_key", admin.nextKey>>}])
                ELSE Render(admin)
           ELSE Render([admin EXCEPT
                       !.api_keys = @ \cup {new_key(admin.nextKey, key_user_id, api_name)},
                       !.nextKey = @ + 1,
                       !.log = @ \cup {<<admin.role, "insert_key", admin.nextKey>>}])
    /\ UNCHANGED <<core, calc, seed, slider>>

\* ------------------------------------- landing page slider (app.py)

\* Lengths are held in units of 1/50 px and the momentum in units of
\* 1/1000 px per ms, so that the displacement momentum * 20 of one
\* momentum frame (line 766) is the momentum itself.  Quotients are cut
\* to these units.
PX == 50

TruncDiv(a, b) == IF a >= 0 THEN a \div b ELSE -((-a) \div b)

\* Math.max(0, Math.min(y, maxY)), lines 732 and 768.
Clamp(y, maxY) == Max(0, IF y <= maxY THEN y ELSE maxY)

\* zipperSlider.offsetHeight, 140px (line 140).
offsetHeight == 140 * PX

\* The frames of one snap animation: progress is p / AnimFrames.
AnimFrames == 2

\* easeOutCubic applied to start + (target - start) * ease, lines 825-827.
easeTo(start, target, p) ==
    start + TruncDiv((target - start)
                       * (AnimFrames * AnimFrames * AnimFrames
                            - (AnimFrames - p) * (AnimFrames - p) * (AnimFrames - p)),
                     AnimFrames * AnimFrames * AnimFrames)

\* init(), lines 894-897, in a window 800px high: the slider at the top,
\* the iframe blank (line 587), nothing dragged, no animation frame
\* requested.  drags counts the drags started, ended tells that one ended.
SliderIdle ==
    [maxY |-> 800 * PX - offsetHeight, top |-> 0, isDragging |-> FALSE,
     startY |-> 0, currentY |-> 0, lastY |-> 0, lastTime |-> FALSE,
     momentum |-> 0, frames |-> <<>>, pointerEvents |-> "auto",
     iframe |-> "about:blank", drags |-> 0, ended |-> FALSE]

\* animateTo, lines 817-839: the first step is requested.
animateTo(s, target) ==
    [s EXCEPT !.frames = Append(@, [kind |-> "step", start |-> s.top,
                                    target |-> target, progress |-> 0])]

\* checkSnapPosition, lines 781-814.
checkSnapPosition(s) ==
    IF 10 * s.top >= 7 * s.maxY THEN animateTo(s, s.maxY) ELSE animateTo(s, 0)

\* applyMomentum, lines 760-778, with its threshold 0.1 and its
\* deceleration 0.95.
applyMomentum(s) ==
    IF s.momentum > 100 \/ s.momentum < -100
    THEN [s EXCEPT !.top = Clamp(s.top + s.momentum, s.maxY),
                   !.momentum = TruncDiv(s.momentum * 95, 100),
                   !.frames = Append(@, [kind |-> "momentum", start |-> 0,
                                         target |-> 0, progress |-> 0])]
    ELSE checkSnapPosition(s)

\* handleDragStart, lines 697-711: the pointer goes down on the slider,
\* here on its middle.
handleDragStart ==
    /\ slider.pointerEvents = "auto"
    /\ ~slider.isDragging
    /\ slider.drags < MaxDrags
    /\ slider' = [slider EXCEPT !.isDragging = TRUE,
                                !.startY = slider.top + offsetHeight \div 2,
                                !.currentY = slider.top,
                                !.drags = @ + 1]
    /\ UNCHANGED <<core, calc, seed, admin>>

\* handleDrag, lines 714-736.
handleDrag ==
    /\ slider.isDragging
    /\ \E clientY \in {100 * PX, 400 * PX, 700 * PX}, deltaTime \in {50, 100} :
         LET deltaY == clientY - (IF slider.lastY # 0 THEN slider.lastY
                                  ELSE slider.startY)
         IN slider' = [slider EXCEPT
              !.lastY = clientY,
              !.momentum = IF slider.lastTime THEN TruncDiv(deltaY * 20, deltaTime)
                           ELSE @,
              !.lastTime = TRUE,
              !.top = Clamp(slider.currentY + (clientY - slider.startY), slider.maxY)]
    /\ UNCHANGED <<core, calc, seed, admin>>

\* handleDragEnd, lines 739-757.
handleDragEnd ==
    /\ slider.isDragging
    /\ LET s == [slider EXCEPT !.isDragging = FALSE, !.lastY = 0,
                               !.lastTime = FALSE, !.ended = TRUE]
       IN slider' = IF s.momentum > 100 \/ s.momentum < -100 THEN applyMomentum(s)
                    ELSE checkSnapPosition(s)
    /\ UNCHANGED <<core, calc, seed, admin>>

\* The animation frame callback requested first runs: applyMomentum.
MomentumFrameRuns ==
    /\ slider.frames # <<>>
    /\ Head(slider.frames).kind = "momentum"
    /\ slider' = applyMomentum([slider EXCEPT !.frames = Tail(@)])
    /\ UNCHANGED <<core, calc, seed, admin>>

\* The animation frame callback requested first runs: step of animateTo,
\* lines 822-835, with the callbacks of lines 787-797 and 801-811 at the end.
StepFrameRuns ==
    /\ slider.frames # <<>>
    /\ Head(slider.frames).kind = "step"
    /\ \E p \in 1..AnimFrames :
         LET f == Head(slider.frames)
             s == [slider EXCEPT !.frames = Tail(@),
                                 !.top = easeTo(f.start, f.target, p)]
         IN /\ p > f.progress
            /\ slider' =
                 IF p < AnimFrames
                 THEN [s EXCEPT !.frames = Append(@, [f EXCEPT !.progress = p])]
                 ELSE IF f.target = 0
                      THEN [s EXCEPT !.pointerEvents = "auto",
                                     !.iframe = "about:blank"]
                      ELSE [s EXCEPT !.pointerEvents = "none",
                                     !.iframe = "http://localhost:8502"]
    /\ UNCHANGED <<core, calc, seed, admin>>

\* handleResize, lines 887-891.
handleResize ==
    /\ \E innerHeight \in {600 * PX, 800 * PX} :
         slider' = [slider EXCEPT !.maxY = innerHeight - offsetHeight]
    /\ UNCHANGED <<core, calc, seed, admin>>

\* ------------------------------------------------------- specifications
EnvChoices ==
    [twilio_sid : BOOLEAN, twilio_token : BOOLEAN, twilio_number : BOOLEAN,
     support_number : BOOLEAN, mongo_uri : BOOLEAN, groq_api_key : BOOLEAN]

\* A store left by earlier runs: ClosedLimit tickets, each closed by the
\* operator, one second apart.
Backlog ==
    {[_id |-> i, query |-> "q1", contact |-> "anonymous", status |-> "closed",
      created_at |-> isoformat(0), closed_at |-> isoformat(i)] : i \in 1..ClosedLimit}

AllSet ==
    [twilio_sid |-> TRUE, twilio_token |-> TRUE, twilio_number |-> TRUE,
     support_number |-> TRUE, mongo_uri |-> TRUE, groq_api_key |-> TRUE]

InitCore ==
    /\ now = 24
    /\ twilio_client = FALSE
    /\ bot = BotIdle
    /\ insertCount = 0
    /\ turn = TurnIdle
    /\ web = WebClosed

InitCommon ==
    /\ InitCore
    /\ calc = CalcIdle
    /\ seed = SeedIdle
    /\ admin = AdminIdle
    /\ slider = SliderIdle

\* The pages start against an empty store.
Init ==
    /\ InitCommon
    /\ env = AllSet
    /\ dash = [s \in {"s1"} |-> SessionStart]
    /\ tickets = {}
    /\ nextId = 1
    /\ closeLog = {}

\* The pages start against the store of closed tickets.
InitBacklog ==
    /\ InitCommon
    /\ env = AllSet
    /\ dash = [s \in {"s1"} |-> SessionStart]
    /\ tickets = Backlog
    /\ nextId = ClosedLimit + 1
    /\ closeLog = {<<i, i>> : i \in 1..ClosedLimit}

\* The chatbot page alone, under every combination of messaging settings.
InitChatbot ==
    /\ InitCommon
    /\ env \in EnvChoices
    /\ dash = <<>>
    /\ tickets = {}
    /\ nextId = 1
    /\ closeLog = {}

NextChatbot ==
    \/ Tick
    \/ CheckSupportNumber
    \/ ConnectMongo
    \/ InitChatModel
    \/ InitTwilio
    \/ CreateTicketBuild
    \/ InsertOne
    \/ InsertOneRaises
    \/ send_whatsapp
    \/ CreateTicketReturn

\* Two dashboard sessions against a store that holds two open tickets,
\* created 12 seconds apart.
RaceStore ==
    {[_id |-> 1, query |-> "q1", contact |-> "anonymous", status |-> "open",
      created_at |-> isoformat(0)],
     [_id |-> 2, query |-> "q2", contact |-> "anonymous", status |-> "open",
      created_at |-> isoformat(12)]}

InitRace ==
    /\ InitCommon
    /\ env = AllSet
    /\ dash = [s \in Sessions |-> SessionStart]
    /\ tickets = RaceStore
    /\ nextId = 3
    /\ closeLog = {}

NextDashboard ==
    \/ Tick
    \/ \E s \in DOMAIN dash :
         \/ FindOpen(s)
         \/ AgeTicket(s)
         \/ SortOpen(s)
         \/ CloseTicket(s)
         \/ RenderOpen(s)
         \/ ListClosed(s)
         \/ PressClose(s)
         \/ Rerun(s)
         \/ FindOpenRaises(s)
         \/ CloseTicketRaises(s)
         \/ ListClosedRaises(s)

Next ==
    \/ NextChatbot
    \/ NextDashboard

\* Both pages from the first line of their scripts, under every
\* combination of settings.
InitStartup ==
    /\ InitCommon
    /\ env \in EnvChoices
    /\ dash = [s \in {"s1"} |-> [SessionStart EXCEPT !.pc = "boot"]]
    /\ tickets = {}
    /\ nextId = 1
    /\ closeLog = {}

NextStartup ==
    \/ NextChatbot
    \/ \E s \in DOMAIN dash : DashConnectMongo(s)

\* The chat widget alone.
InitWeb ==
    /\ InitCommon
    /\ env = AllSet
    /\ dash = <<>>
    /\ tickets = {}
    /\ nextId = 1
    /\ closeLog = {}

NextWeb ==
    \/ initializeFirebaseAndAuth
    \/ SendClick
    \/ SnapshotAdded
    \/ AnonSignInResolves
    \/ AnonSignInRejects
    \/ ToggleAuthClick
    \/ AuthSubmitResolves
    \/ showChatbotAfterAuth
    \/ SignOutResolves
    \/ SignOutContinues
    \/ \E j \in 1..MaxSends + 1 :
         /\ web.pc = "open"
         /\ j <= Len(web.jobs)
         /\ \/ LocalTimerFires(j)
            \/ AddDocUserResolves(j)
            \/ AddDocUserRejects(j)
            \/ TimerFires(j)
            \/ AddDocBotSettles(j)

SpecWeb == InitWeb /\ [][NextWeb]_vars

\* The chatbot page handling turns: the start-up, then turns whose
\* escalations go through create_ticket.
InitTurn ==
    /\ InitCommon
    /\ env = AllSet
    /\ dash = <<>>
    /\ tickets = {}
    /\ nextId = 1
    /\ closeLog = {}

\* A contact is captured between turns.
CaptureContact ==
    /\ turn.pc = "idle"
    /\ turn.captured = None
    /\ turn' = [turn EXCEPT !.captured = "user@example.com"]
    /\ UNCHANGED <<now, tickets, nextId, env, twilio_client, bot, dash, closeLog, insertCount, web, ext>>

NextTurn ==
    \/ CheckSupportNumber
    \/ ConnectMongo
    \/ InitChatModel
    \/ InitTwilio
    \/ InsertOne
    \/ InsertOneRaises
    \/ send_whatsapp
    \/ CreateTicketReturn
    \/ CaptureContact
    \/ TurnStart
    \/ TurnCommand
    \/ TurnInvoke
    \/ TurnPolicy
    \/ TurnCreateTicket
    \/ TurnTicketDone
    \/ TurnAppend

SpecTurn == InitTurn /\ [][NextTurn]_vars

\* Nothing but the start of the pages has happened.
InitExt ==
    /\ InitCore
    /\ env = AllSet
    /\ dash = <<>>
    /\ tickets = {}
    /\ nextId = 1
    /\ closeLog = {}
    /\ calc = CalcIdle
    /\ seed = SeedIdle
    /\ admin = AdminIdle
    /\ slider = SliderIdle

\* The display computations of the dashboard, each on inputs of its own.
NextCalc ==
    \/ GetApiHealth
    \/ QuotaView
    \/ KeyReminder

SpecCalc == InitExt /\ [][NextCalc]_vars

\* Dashboard sessions starting against empty logs and users collections.
NextSeed ==
    \E s \in SeedSessions :
       \/ SeedStart(s)
       \/ CheckLogs(s)
       \/ InsertLogs(s)
       \/ CheckUsers(s)
       \/ InsertUsers(s)

SpecSeed == InitExt /\ [][NextSeed]_vars

\* The admin panels of one dashboard session.
NextAdmin ==
    \/ SelectRole
    \/ ClickKeyStatus
    \/ ClickGenerateKey
    \/ SubmitAddUser
    \/ SubmitGenerateKey

SpecAdmin == InitExt /\ [][NextAdmin]_vars

\* The slider of the landing page under drags, frames and resizes.
NextSlider ==
    \/ handleDragStart
    \/ handleDrag
    \/ handleDragEnd
    \/ MomentumFrameRuns
    \/ StepFrameRuns
    \/ handleResize

SpecSlider == InitExt /\ [][NextSlider]_vars

Spec == Init /\ [][Next]_vars

SpecStartup == InitStartup /\ [][NextStartup]_vars

SpecChatbot == InitChatbot /\ [][NextChatbot]_vars

SpecRace == InitRace /\ [][NextDashboard]_vars

SpecBacklog == InitBacklog /\ [][Next]_vars

\* --------------------------------------------------------------- claims
HasClosedAt(t) == "closed_at" \in DOMAIN t

\* The step in which session s runs the open-tickets query.
ListsOpen(s) == dash[s].pc = "run" /\ dash'[s].pc # "run"

\* The step in which session s runs the closed-tickets query.
ListsClosed(s) == dash[s].pc = "closed_tab" /\ dash'[s].pc = "idle"

\* The step in which session s applies the Close Ticket update.
Closes(s) == dash[s].pc = "render" /\ dash'[s].pc = "run"

\* C1: a successful create_ticket call inserts exactly one new document,
\* with status open, the given query and contact and a created_at not after
\* the clock, under a fresh id; it then calls send_whatsapp exactly once,
\* which leaves the store as it is whatever the outcome, and returns the
\* inserted id as a string.
C1_CreateInsertsOneAndNotifiesOnce ==
    [][/\ (bot.pc = "insert" /\ bot'.pc = "notify") =>
            \E r \in tickets' :
              /\ r \notin tickets
              /\ tickets' = tickets \cup {r}
              /\ \A u \in tickets : u._id # r._id
              /\ r._id = bot'.inserted_id
              /\ r.status = "open"
              /\ r.query = bot.ticket.query
              /\ r.contact = bot.ticket.contact
              /\ fromisoformat(r.created_at) <= now
              /\ bot'.sends = 0
       /\ (bot.pc = "notify" /\ bot'.pc # bot.pc) =>
              /\ bot'.pc = "return"
              /\ bot'.sends = bot.sends + 1
              /\ tickets' = tickets
       /\ (bot.pc = "return" /\ bot'.pc # bot.pc) =>
              /\ bot.sends = 1
              /\ bot'.ret = str(bot.inserted_id)
              /\ \E r \in tickets : r._id = bot.inserted_id /\ r.status = "open"
              /\ tickets' = tickets
      ]_vars

\* C1 witness: a call has returned the id of a stored open ticket.
C1_Witness ==
    /\ bot.pc = "ready"
    /\ bot.ret # None
    /\ \E r \in tickets : str(r._id) = bot.ret /\ r.status = "open"

\* C2: a ticket is closed only if the Close Ticket update was applied to
\* it, and no open-tickets query returns a ticket the update was applied to
\* before.
C2_ClosedOnlyByOperatorAndNeverListedOpen ==
    [][/\ \A t \in tickets' : t.status = "closed" => t._id \in ClosedByOperator'
       /\ \A s \in DOMAIN dash :
            ListsOpen(s) => Ids(dash'[s].open_tickets) \cap ClosedByOperator = {}
      ]_vars

\* C2 witness: after a close, an open-tickets query has returned the
\* tickets that are still open.
C2_Witness ==
    \E s \in DOMAIN dash :
      /\ dash[s].pc = "age"
      /\ ClosedByOperator # {}
      /\ \E t \in tickets : t.status = "closed"

\* C3 (as claimed): in the rendered open-tickets list a ticket created
\* earlier always stands before a ticket created later.
C3_OldestFirst ==
    \A s \in DOMAIN dash :
      LET l == dash[s].open_tickets_sorted IN
      \A i, j \in 1..Len(l) :
        fromisoformat(l[i].created_at) < fromisoformat(l[j].created_at) => i < j

\* C4: send_whatsapp calls messages.create at most once, returns normally
\* on every outcome (with an info notice when it did not try and a warning
\* when the try failed), and create_ticket then returns the inserted id.
C4_NotifierNeverRaisesNorRetries ==
    [][/\ (bot.pc = "notify" /\ bot'.pc # bot.pc) =>
              /\ bot'.pc = "return"
              /\ ~bot'.raised
              /\ bot'.attempts \in {0, 1}
              /\ bot'.attempts = 0 <=> bot'.notice = "info"
              /\ bot'.notice \in {None, "info", "warning"}
              /\ bot'.inserted_id = bot.inserted_id
       /\ (bot.pc = "return" /\ bot'.pc # bot.pc) =>
              /\ bot'.pc = "ready"
              /\ ~bot'.raised
              /\ bot'.ret = str(bot.inserted_id)
      ]_vars

\* C4 witness: the one send attempt failed and create_ticket is about to
\* return the id.
C4_Witness ==
    /\ bot.pc = "return"
    /\ bot.attempts = 1
    /\ bot.notice = "warning"

\* C5: every status is open or closed; a ticket is inserted open; a closed
\* ticket stays closed; a ticket becomes closed only in a step that applies
\* the Close Ticket update to it.
C5_StatusOpenThenClosed ==
    [][/\ \A u \in tickets' :
            /\ u.status \in {"open", "closed"}
            /\ (\A t \in tickets : t._id # u._id) => u.status = "open"
       /\ \A t \in tickets :
            \E u \in tickets' :
              /\ u._id = t._id
              /\ t.status = "closed" => u.status = "closed"
              /\ (t.status = "open" /\ u.status = "closed") =>
                    /\ <<t._id, now>> \in closeLog'
                    /\ \E s \in DOMAIN dash : Closes(s) /\ t._id \in dash[s].clicked
      ]_vars

\* C5 witness: one ticket has been closed while another is open.
C5_Witness ==
    /\ \E t \in tickets : t.status = "closed"
    /\ \E t \in tickets : t.status = "open"

\* C6 (as claimed): closed_at is absent while the ticket is open and, once
\* written, never changes.
C6_ClosedAtWrittenOnce ==
    [][\A t \in tickets, u \in tickets' :
         u._id = t._id =>
           /\ t.status = "open" => ~HasClosedAt(t)
           /\ HasClosedAt(t) => HasClosedAt(u) /\ u.closed_at = t.closed_at
      ]_vars

\* C6 (amended): closed_at is absent exactly while the ticket is open, is
\* never removed, and is written only by a Close Ticket update, which sets
\* it to the time of that update, also when the ticket is closed already.
C6_ClosedAtWrittenByCloseOnly ==
    [][\A t \in tickets, u \in tickets' :
         u._id = t._id =>
           /\ u.status = "open" <=> ~HasClosedAt(u)
           /\ HasClosedAt(t) => HasClosedAt(u)
           /\ (HasClosedAt(u) /\ (~HasClosedAt(t) \/ u.closed_at # t.closed_at)) =>
                 /\ u.closed_at = isoformat(now)
                 /\ \E s \in DOMAIN dash : Closes(s) /\ t._id \in dash[s].clicked
      ]_vars

\* C6 witness: one ticket was closed by a single update and carries its
\* time, another is open and has no closed_at.
C6_Witness ==
    /\ \E t \in tickets :
         /\ t.status = "closed"
         /\ HasClosedAt(t)
         /\ Cardinality({e \in closeLog : e[1] = t._id}) = 1
         /\ <<t._id, fromisoformat(t.closed_at)>> \in closeLog
    /\ \E t \in tickets : t.status = "open" /\ ~HasClosedAt(t)

\* C7: a Close Ticket update on a ticket that is closed already goes
\* through like any other: the session reruns, the status stays closed and
\* closed_at becomes the time of this update.
C7_DoubleCloseOverwrites ==
    [][\A s \in DOMAIN dash :
         Closes(s) =>
           \A t \in tickets :
             (t._id \in dash[s].clicked /\ t.status = "closed") =>
               \E u \in tickets' :
                 /\ u._id = t._id
                 /\ u.status = "closed"
                 /\ u.closed_at = isoformat(now)
                 /\ dash'[s].pc = "run"
      ]_vars

\* C7 witness: a ticket was closed twice, at different times, and carries
\* the later one.
C7_Witness ==
    \E t \in tickets :
      \E e1, e2 \in closeLog :
        /\ e1[1] = t._id /\ e2[1] = t._id
        /\ e1[2] < e2[2]
        /\ t.status = "closed"
        /\ fromisoformat(t.closed_at) = e2[2]

\* C8 (as claimed): once the operator has closed a ticket, every later
\* open-tickets query leaves it out and every later closed-tickets query
\* returns it, with closed_at set.
C8_ClosedAlwaysListedClosed ==
    [][\A s \in DOMAIN dash :
         /\ ListsOpen(s) => Ids(dash'[s].open_tickets) \cap ClosedByOperator = {}
         /\ ListsClosed(s) =>
              \A oid \in ClosedByOperator :
                \E i \in 1..Len(dash'[s].closed_tickets) :
                  /\ dash'[s].closed_tickets[i]._id = oid
                  /\ HasClosedAt(dash'[s].closed_tickets[i])
      ]_vars

\* C8 (amended): every later open-tickets query leaves a closed ticket out;
\* a closed-tickets query returns at most 20 tickets, all closed and with
\* closed_at set, and returns a closed ticket whenever fewer than 20 other
\* tickets have a closed_at equal to or later than its own.
C8_ClosedListedWithinLimit ==
    [][\A s \in DOMAIN dash :
         /\ ListsOpen(s) => Ids(dash'[s].open_tickets) \cap ClosedByOperator = {}
         /\ ListsClosed(s) =>
              LET l == dash'[s].closed_tickets IN
              /\ Len(l) <= ClosedLimit
              /\ \A i \in 1..Len(l) :
                   l[i] \in tickets /\ l[i].status = "closed" /\ HasClosedAt(l[i])
              /\ \A t \in tickets :
                   (/\ t._id \in ClosedByOperator
                    /\ Cardinality({u \in tickets :
                          /\ u # t
                          /\ u.status = "closed"
                          /\ ~IsoLess(u.closed_at, t.closed_at)}) < ClosedLimit)
                   => t._id \in Ids(l)
      ]_vars

\* C8 witness: a closed-tickets query has returned 20 tickets, among them
\* one closed in this run, and left out one that was closed earlier.
C8_Witness ==
    \E s \in DOMAIN dash :
      /\ dash[s].pc = "idle"
      /\ Len(dash[s].closed_tickets) = ClosedLimit
      /\ \E oid \in ClosedByOperator : oid \notin Ids(dash[s].closed_tickets)
      /\ \E oid \in Ids(dash[s].closed_tickets) : oid > ClosedLimit

\* C9: the store holds one document per successful insert, each under its
\* own id, however many of them carry the same query and contact.
C9_NoDeduplication ==
    /\ Cardinality(tickets) = insertCount
    /\ \A t, u \in tickets : t # u => t._id # u._id

\* C9 witness: two stored tickets with the same query and contact.
C9_Witness ==
    \E t, u \in tickets :
      /\ t._id # u._id
      /\ t.query = u.query
      /\ t.contact = u.contact

\* C10 (as claimed): no missing messaging setting stops the chatbot page
\* during startup.
C10_MessagingSettingsOptional ==
    ~(bot.pc = "stopped" /\ bot.notice = "error: SUPPORT_PHONE_NUMBER not set")

\* C11 (as claimed): a page whose database connection string or model API
\* key is absent never gets past its startup: the chatbot page does not
\* become ready and the dashboard page does not reach its content.
C11_MissingCredentialStopsStartup ==
    /\ (~env.mongo_uri \/ ~env.groq_api_key) => bot.pc \in {"boot", "mongo", "model", "stopped"}
    /\ ~env.mongo_uri => \A s \in DOMAIN dash : dash[s].pc \in {"boot", "stopped"}

\* C19 (as claimed): a store exception during a ticket operation of the
\* dashboard never ends the script run: no run is cut short by it.
C19_StoreErrorsContained ==
    \A s \in DOMAIN dash : dash[s].pc # "aborted"

\* C20: a Close Ticket update leaves the id, query, contact and created_at
\* of its ticket as they were, changes nothing of any other ticket, and
\* neither adds nor removes a ticket.
C20_CloseChangesOnlyStatusAndClosedAt ==
    [][\A s \in DOMAIN dash :
         Closes(s) =>
           /\ {t._id : t \in tickets'} = {t._id : t \in tickets}
           /\ \A t \in tickets :
                \E u \in tickets' :
                  /\ u._id = t._id
                  /\ u.query = t.query
                  /\ u.contact = t.contact
                  /\ u.created_at = t.created_at
                  /\ t._id \notin dash[s].clicked => u = t
                  /\ DOMAIN u \subseteq DOMAIN t \cup {"closed_at"}
      ]_vars

\* C20 witness: of two tickets one has been closed, the other is open as
\* before.
C20_Witness ==
    \E t, u \in tickets :
      /\ t.status = "closed" /\ HasClosedAt(t)
      /\ u.status = "open" /\ ~HasClosedAt(u)
      /\ t.query # u.query

\* A send whose reply is still to come.
InFlight(job) == job.pc \in {"persist_user", "timer", "timer_local"}

\* Elements of the chat display that are replies (the greeting is none).
ReplyElements ==
    {i \in 1..Len(web.chatMessages) :
       web.chatMessages[i].sender = "bot" /\ web.chatMessages[i] # Greeting}

\* C13 (as claimed): in a chat that was not started over, once every send
\* has run its course and every stored
\* message has been delivered, the chat shows exactly one assistant reply
\* per user message sent.
C13_OneReplyPerUserTurn ==
    (/\ web.pc = "open"
     /\ \A j \in 1..Len(web.jobs) :
          /\ ~web.jobs[j].stale
          /\ ~InFlight(web.jobs[j])
          /\ web.jobs[j].pc # "persist_bot"
     /\ {d.id : d \in Listened} \subseteq web.delivered)
    => Cardinality(ReplyElements) = Len(web.jobs)

\* C14 (as claimed): at no point are two sends of the session waiting for
\* their reply.
C14_OneTurnInFlight ==
    web.pc = "open" =>
      Cardinality({j \in 1..Len(web.jobs) :
                     InFlight(web.jobs[j]) /\ ~web.jobs[j].stale}) <= 1

\* Answers that hold a marker phrase, listed by hand.
MarkedAnswers == {FallbackSentence, AnswerUnsure, AnswerInside}

\* Utterances that hold a command alias, listed by hand.
CommandUtterances == {UtterHelp, UtterTickets, UtterContact}

\* Tickets stored since the current turn began.
NewInTurn == {t \in tickets : t._id >= turn.first_id}

\* The reply names a ticket id.
HasId(response) ==
    \E i \in 1..Len(response) : response[i] \in {ToString(n) : n \in 1..nextId}

\* C12: the escalation decision is true for exactly the answers that hold
\* a marker phrase, in any case and anywhere in the answer, and the
\* fallback sentence of SYSTEM_PROMPT escalates.
C12_EscalationIffMarker ==
    /\ turn.path \in {"escalation", "answer"} =>
          (turn.needs_ticket <=> turn.answer \in MarkedAnswers)
    /\ needs_ticket(FallbackSentence)

C12_Witness ==
    /\ turn.path = "escalation"
    /\ turn.answer = AnswerInside
    /\ turn.needs_ticket

\* C15: when the model invocation raises, the handler calls create_ticket
\* exactly once, with the utterance as query, and still produces a reply.
C15_ModelErrorOneTicketAttempt ==
    [][/\ (turn.path = "exception" /\ turn.pc = "ticket" /\ turn'.pc = "creating") =>
            /\ bot'.pc = "insert"
            /\ bot'.ticket.query = turn.utterance
            /\ bot'.ticket.contact = "AI Chatbot Failure"
       /\ turn'.path = "exception" =>
            /\ turn'.ticket_calls <= 1
            /\ turn'.pc \in {"creating", "append", "idle"} => turn'.ticket_calls = 1
            /\ turn'.pc \in {"append", "idle"} => turn'.response # <<>>]_vars

C15_Witness ==
    /\ turn.path = "exception"
    /\ turn.pc = "append"
    /\ turn.ticket_calls = 1
    /\ \E t \in NewInTurn : t.query = turn.utterance /\ t.contact = "AI Chatbot Failure"

\* C16: an utterance that holds a command alias gets the canned content,
\* with no model call and no ticket.
C16_CommandsBypassModel ==
    turn.utterance \in CommandUtterances =>
       /\ turn.model_calls = 0
       /\ turn.ticket_calls = 0
       /\ turn.pc # "command" => turn.path = "command"
       /\ turn.pc = "append" =>
            /\ turn.response \in {Canned(k) : k \in 1..Len(Commands)}
            /\ NewInTurn = {}

C16_Witness ==
    /\ turn.utterance = UtterTickets
    /\ turn.pc = "append"
    /\ turn.response = Canned(2)

C18_FailedCreateContained ==
    /\ turn.ticket_calls <= 1
    /\ (turn.pc = "append" /\ turn.ticket_calls = 1 /\ NewInTurn = {}) =>
          /\ ~HasId(turn.response)
          /\ turn.ticket_id = None
          /\ turn.response[Len(turn.response)] = DegradedNotice[1]
          /\ turn.signal = "error"

C18_Witness ==
    /\ turn.pc = "append"
    /\ turn.path = "escalation"
    /\ turn.ticket_calls = 1
    /\ NewInTurn = {}
    /\ turn.response = turn.answer \o DegradedNotice

\* A step that starts the chat display over: the end of
\* showChatbotAfterAuth or of the sign-out handler.
DisplayReset == web.authpc \in {"signed_in", "signed_out"} /\ web'.authpc = "idle"

\* C21: between resets the chat display only grows: a step leaves it as
\* it is or appends one element at its end; no element is edited, moved
\* or removed.
C21_TranscriptOnlyGrows ==
    [][(web.pc = "open" /\ web'.pc = "open" /\ ~DisplayReset) =>
          \/ web'.chatMessages = web.chatMessages
          \/ /\ Len(web'.chatMessages) = Len(web.chatMessages) + 1
             /\ SubSeq(web'.chatMessages, 1, Len(web.chatMessages)) = web.chatMessages]_vars

C21_Witness ==
    /\ web.pc = "open"
    /\ web.view = "auth"
    /\ web.signIns = 1
    /\ \E j \in 1..Len(web.jobs) : web.jobs[j].stale
    /\ Len(web.chatMessages) >= 3

\* C22 (as claimed): no message is shown twice: no two elements of the
\* chat display come from the same message of the same send.
C22_ShownAtMostOnce ==
    web.pc = "open" =>
      \A i, k \in 1..Len(web.chatMessages) :
         i # k => web.chatMessages[i].origin # web.chatMessages[k].origin

\* C23 (as claimed): when the sign-out handler has run, the auth form is
\* in sign-in mode and its submit button reads "Sign In".
C23_SignOutRestoresSignInView ==
    [][(web.pc = "open" /\ web.authpc = "signed_out" /\ web'.authpc = "idle") =>
          ~web'.isSigningUp /\ web'.submitText = "Sign In"]_vars

\* C26: create_ticket inserts before it notifies: send_whatsapp is
\* called with the id of a ticket that is in the store, and when the
\* insert raises nothing is stored, send_whatsapp is not called and no id
\* is returned.
C26_InsertBeforeNotify ==
    [][/\ (bot.pc = "notify" /\ bot'.pc = "return") =>
            /\ bot'.sends = 1
            /\ \E t \in tickets :
                  /\ bot'.ticket_id = ToString(t._id)
                  /\ t.query = bot.ticket.query
       /\ (bot.pc = "insert" /\ bot'.pc = "ready") =>
            /\ bot'.raised
            /\ tickets' = tickets
            /\ bot.sends = 0 /\ bot'.sends = 0
            /\ bot'.ret = None
       /\ (bot.pc = "insert" /\ bot'.pc # "insert") => bot.sends = 0]_vars

C26_Witness ==
    /\ bot.pc = "return"
    /\ bot.attempts = 1
    /\ \E t \in tickets : bot.ticket_id = ToString(t._id) /\ t._id = bot.inserted_id

\* C24 (as claimed): the quota view shows exactly one message: the error
\* iff nothing remains, the warning iff what remains is positive and at
\* most a fifth of the quota, the success message otherwise.
C24_QuotaMessage ==
    calc.fn = "quota" =>
       /\ Cardinality(calc.messages) = 1
       /\ "error" \in calc.messages <=> calc.remaining_quota <= 0
       /\ "warning" \in calc.messages <=>
             (calc.remaining_quota > 0 /\ 5 * calc.remaining_quota <= calc.quota_val)
       /\ "success" \in calc.messages <=> 5 * calc.remaining_quota > calc.quota_val

\* C25 (as claimed): an active key past its expiry gets the error, an
\* active key that expires within 30 days and has not expired gets the
\* warning, an inactive key gets neither.
C25_RotationReminder ==
    calc.fn = "rotation_reminder" =>
       /\ (calc.status = "active" /\ calc.expires_at < calc.utcnow) =>
             calc.result = "error"
       /\ (calc.status = "active" /\ calc.expires_at >= calc.utcnow
             /\ calc.expires_at < calc.utcnow + 30) => calc.result = "warning"
       /\ calc.status = "inactive" => calc.result = "none"

\* C27: for every configured API and every pair of draws get_api_health
\* returns "healthy".
C27_AlwaysHealthy ==
    calc.fn = "get_api_health" =>
       /\ calc.result.status = "healthy"
       /\ calc.result.icon = "green"

C27_Witness ==
    /\ calc.fn = "get_api_health"
    /\ calc.api = "WeatherAPI"
    /\ calc.k1 = DrawSteps - 1
    /\ calc.k2 = DrawSteps - 1
    /\ calc.result.status = "healthy"

\* C28 (as claimed): the dummy logs and the dummy users are inserted at
\* most once, so that there is one user record per user_id.
C28_SeededOnce ==
    /\ seed.logs <= 1
    /\ seed.users <= 1

\* C29: every write to api_keys or users was made by a script run whose
\* role is "Admin"; every key is active or inactive; a key is active when
\* it is generated.
C29_WritesNeedAdmin ==
    [][/\ \A w \in admin'.log : w[1] = "Admin"
       /\ (admin'.api_keys # admin.api_keys \/ admin'.users # admin.users) =>
             admin.role = "Admin" /\ admin'.role = "Admin"
       /\ \A k \in admin'.api_keys : k.status \in {"active", "inactive"}
       /\ \A k \in admin'.api_keys :
             (\A x \in admin.api_keys : x.key_id # k.key_id) => k.status = "active"]_vars

C29_Witness ==
    /\ admin.role = "Developer"
    /\ \E k \in admin.api_keys : k.status = "inactive"
    /\ \E k \in admin.api_keys : k.status = "active"
    /\ "new_user" \in admin.users
    /\ admin.rendered = {}

\* C30 (as claimed): the slider position stays within [0, maxY], and once
\* a drag has ended and all motion has stopped the slider rests at 0 with
\* the iframe blank and the slider interactive, or at maxY with the
\* chatbot loaded and the slider non-interactive.
C30_SliderInRangeAndSnapped ==
    /\ 0 <= slider.top /\ slider.top <= slider.maxY
    /\ (slider.ended /\ ~slider.isDragging /\ slider.frames = <<>>) =>
          \/ /\ slider.top = 0
             /\ slider.iframe = "about:blank"
             /\ slider.pointerEvents = "auto"
          \/ /\ slider.top = slider.maxY
             /\ slider.iframe = "http://localhost:8502"
             /\ slider.pointerEvents = "none"

====
